---- MODULE Spec2Model ----
(***************************************************************************)
(* State-machine model of the MeshBlock class of src/mesh/meshblock.cpp:   *)
(* the constructor (gids, levels and boundary flags of the local blocks)   *)
(* and SetNeighbors (the neighbor table of the local blocks).              *)
(*                                                                         *)
(* The Mesh the MeshBlock reads (root grid, boundary kinds, logical        *)
(* location list, rank list) and the MeshBlockTree it searches             *)
(* (FindNeighbor, GetLeaf) are collaborators whose code is not part of     *)
(* the modelled sources; they are modelled from the design document.       *)
(***************************************************************************)
EXTENDS Integers, Sequences, FiniteSets, TLC

\* ------------------------------------------------------------------ bounds
\* largest number of root blocks along x1 on a 1D mesh
MaxRoot1D == 4
\* largest number of root blocks along each axis on a 2D or 3D mesh
MaxRootMD == 2
\* largest number of refined (internal) nodes at or above the root level
MaxRefined == 2
\* largest number of leaves (MeshBlocks) of a mesh
MaxLeaves == 11
\* largest number of MPI ranks
MaxRanks == 2
\* largest root level of the tree
MaxRootLevel == 1
\* largest number of times the rank map is replaced between SetNeighbors calls
MaxRebalance == 1
\* largest number of blocks handed to the decomposer
MaxBlocksD == 5
\* largest cost of a block
MaxCost == 4
\* largest number of workers
MaxWorkers == 3
\* largest number of decompositions of one (gids, costs) sequence
MaxRuns == 2
\* largest number of angular points (num_points) of the radiation solver
MaxPoints == 3
\* largest number of cells the radiation update loops over
MaxCells == 2
\* largest number of active cells of a MeshBlock along an axis, and of ghost cells
MaxNx == 2
MaxNg == 2

VARIABLES
  dim,         \* mesh dimensionality: 1 (one_d), 2 (two_d), 3 (three_d)
  nmb_root,    \* <<nmb_rootx1, nmb_rootx2, nmb_rootx3>>
  root_level,  \* pm->root_level
  mesh_bcs,    \* pm->mesh_bcs[BoundaryFace], indexed 0..5
  refined,     \* the tree: locations of the internal nodes at level >= root_level
  lloclist,    \* pm->lloclist: gid -> LogicalLocation
  tree_gid,    \* the gid_ member of every node of the tree
  ranklist,    \* the rank map handed to SetNeighbors: gid -> rank
  oob_rank,    \* the int in memory just before ranklist[0]
  my_rank,     \* rank of the process that owns the MeshBlock object
  pc,          \* "none" (no MeshBlock), "constructed", "neighbors"
  nmb,         \* MeshBlock::nmb
  mbgid_h,     \* mbgid.h_view
  mbgid_d,     \* mbgid.d_view
  mblev_h,     \* mblev.h_view
  mblev_d,     \* mblev.d_view
  mbbcs,       \* mbbcs(m, 0..5)
  mbbcs_d,     \* what the compute-side mirror holds of the boundary flags
  nnghbr,      \* MeshBlock::nnghbr
  nghbr_h,     \* nghbr.h_view(m, n)
  nghbr_d,     \* nghbr.d_view(m, n)
  qlog,        \* history: the FindNeighbor queries the last SetNeighbors call made
               \* for each block
  nghbr_log,   \* history: the steps of the last SetNeighbors call on the nghbr
               \* DualArray, in program order
  nbalance,    \* number of times the rank map was replaced
  \* --- Decomposer (spec.md 4.4)
  costs,       \* cost of every block, by gid in traversal order
  nworkers,    \* W, the worker count
  rankOf,      \* the partition computed last: gid -> worker
  dpc,         \* "off", "input" (nothing computed yet), "decomposed"
  nruns,       \* number of decompositions computed from costs
  \* --- RadiationFEMN::ExpRKUpdate, the BiCGSTAB solve of each cell
  num_points,  \* pradfemn->num_points (tot_iter is a copy)
  ncells,      \* number of cells of the outer loop
  bcell,       \* the cell being solved
  bpc,         \* "off", "setup", "loop", "write", "done"
  index,       \* loop variable of the BiCGSTAB loop
  n_iter,      \* n_iter
  x0_arr,      \* the current iterate: which assignment produced it, in which
               \* iteration
  f0,          \* f0_ of every cell: the iterate written back, or "old"
  warnings,    \* history: warnings printed for every cell
  converged,   \* history: a residual test succeeded for the cell
  iters,       \* history: iterations begun for the cell
  \* --- ProblemGenerator::Advection_
  flow_dir,    \* problem/flow_dir
  iprob,       \* problem/iproblem
  mb_cells,    \* pmb->mb_cells: is, ie, js, je, ks, ke, ng, nx1, nx2, nx3
  u0,          \* pmb->phydro->u0(n, k, j, i), "unset" where nothing was written
  kji,         \* the loop variables <<k, j, i>>
  apc          \* "off", "start", "loop", "exited" (EXIT_FAILURE), "returned"

meshvars ==
  <<dim, nmb_root, root_level, mesh_bcs, refined, lloclist, tree_gid, ranklist,
    oob_rank, my_rank>>
ctorvars == <<nmb, mbgid_h, mbgid_d, mblev_h, mblev_d, mbbcs, mbbcs_d>>
nghbrvars == <<nnghbr, nghbr_h, nghbr_d, qlog, nghbr_log>>
decompvars == <<costs, nworkers, rankOf, dpc, nruns>>
\* the state of the components other than MeshBlock
bicgvars ==
  <<num_points, ncells, bcell, bpc, index, n_iter, x0_arr, f0, warnings, converged,
    iters>>
advvars == <<flow_dir, iprob, mb_cells, u0, kji, apc>>
othervars == <<decompvars, bicgvars, advvars>>
\* the state of MeshBlock and the mesh it reads
meshblockvars == <<meshvars, pc, ctorvars, nghbrvars, nbalance>>
vars == <<meshblockvars, othervars>>

\* --------------------------------------------------------------- helpers
RECURSIVE Pow2(_)
Pow2(k) == IF k <= 0 THEN 1 ELSE 2 * Pow2(k - 1)

\* C++ left shift of a non-negative int by a non-negative count
Shl(x, k) == x * Pow2(k)

Max2(a, b) == IF a >= b THEN a ELSE b

\* ------------------------------------------------ Mesh (collaborator) data
\* LogicalLocation {level, lx1, lx2, lx3}
Loc(l, x1, x2, x3) == [level |-> l, lx1 |-> x1, lx2 |-> x2, lx3 |-> x3]

\* Mesh dimensionality flags
one_d == dim = 1
two_d == dim = 2
three_d == dim = 3
multi_d == dim >= 2

\* BoundaryFace enumerators
inner_x1 == 0
outer_x1 == 1
inner_x2 == 2
outer_x2 == 3
inner_x3 == 4
outer_x3 == 5

\* BoundaryFlag kinds: "block" marks a face shared with another MeshBlock
BCPairs == { <<"periodic", "periodic">>, <<"reflect", "outflow">> }

\* whether the mesh has more than one cell along x2 / x3 (mesh_indcs.nx2 > 1)
\* variant: the x2 axis is never treated as degenerate (for C12)
MeshNx2IsOne_Never == FALSE
MeshNx2IsOne == dim = 1
MeshNx3IsOne == dim <= 2

\* number of blocks along each axis at a level
NmbAt(axis, level) == Shl(nmb_root[axis], level - root_level)

\* ------------------------------------------- MeshBlockTree (collaborator)
\* the root grid: one node per root block at the root level
RootBlocksOf(nr, rl) ==
  { Loc(rl, i, j, k) : i \in 0..(nr[1]-1), j \in 0..(nr[2]-1), k \in 0..(nr[3]-1) }

\* octant offsets of the children of an internal node; a degenerate axis is
\* not subdivided
OctantsOf(d) ==
  { <<o1, o2, o3>> \in {0,1} \X {0,1} \X {0,1} :
      /\ (d < 2 => o2 = 0)
      /\ (d < 3 => o3 = 0) }

\* the child of node nd in octant (o1,o2,o3)
GetLeaf(nd, o1, o2, o3) ==
  Loc(nd.level + 1, 2 * nd.lx1 + o1, 2 * nd.lx2 + o2, 2 * nd.lx3 + o3)

ChildrenOf(nd, d) == { GetLeaf(nd, o[1], o[2], o[3]) : o \in OctantsOf(d) }

ParentOf(nd) == Loc(nd.level - 1, nd.lx1 \div 2, nd.lx2 \div 2, nd.lx3 \div 2)

\* the ancestor of location t at level l <= t.level
AncestorAt(t, l) ==
  LET s == Pow2(t.level - l)
  IN  Loc(l, t.lx1 \div s, t.lx2 \div s, t.lx3 \div s)

\* the nodes of the tree at or above the root level, for a set ref of internal nodes
NodesOf(nr, rl, d, ref) ==
  RootBlocksOf(nr, rl) \cup UNION { ChildrenOf(nd, d) : nd \in ref }

LeavesOf(nr, rl, d, ref) == NodesOf(nr, rl, d, ref) \ ref

\* position of a location along the depth-first traversal of the tree (children
\* visited in octant order, x1 fastest): the Morton key of its low corner at
\* level top
RECURSIVE Morton(_, _, _)
Morton(x, y, z) ==
  IF x = 0 /\ y = 0 /\ z = 0 THEN 0
  ELSE (x % 2) + 2 * (y % 2) + 4 * (z % 2) + 8 * Morton(x \div 2, y \div 2, z \div 2)

TraversalKey(l, top) ==
  LET s == Pow2(top - l.level)
  IN  Morton(l.lx1 * s, l.lx2 * s, l.lx3 * s)

\* the logical location list: leaves in traversal order, gid = position
LocListOf(nr, rl, d, ref) ==
  LET leaves == LeavesOf(nr, rl, d, ref)
      top == rl + Cardinality(ref)
      keyed == { << TraversalKey(l, top), l >> : l \in leaves }
      seq == [ i \in 1..Cardinality(keyed) |->
                 (CHOOSE p \in keyed :
                    Cardinality({ q \in keyed : q[1] < p[1] }) = i - 1)[2] ] \o << >>
  IN  [ g \in 0..(Len(seq) - 1) |-> seq[g + 1] ]

Leaves == { lloclist[g] : g \in DOMAIN lloclist }
NLeaves == Cardinality(DOMAIN lloclist)

\* nullptr, as a node
NullNode == Loc(-1, -1, -1, -1)

\* a coordinate moved by an offset: wrapped on a periodic axis, -1 when it leaves
\* the domain on a non-periodic axis
MoveCoord(x, ox, n, per) ==
  IF x + ox < 0 THEN (IF per THEN n - 1 ELSE -1)
  ELSE IF x + ox >= n THEN (IF per THEN 0 ELSE -1)
  ELSE x + ox

\* descend from node bt towards location t until a leaf is reached or t's level
RECURSIVE Descend(_, _, _)
Descend(ref, bt, t) ==
  IF bt.level >= t.level \/ bt \notin ref THEN bt
  ELSE Descend(ref, AncestorAt(t, bt.level + 1), t)

\* MeshBlockTree::FindNeighbor on the tree with internal nodes ref
FindNeighborIn(nr, rl, bcs, ref, loc, ox1, ox2, ox3) ==
  LET sh == Pow2(loc.level - rl)
      x == MoveCoord(loc.lx1, ox1, nr[1] * sh, bcs[0] = "periodic")
      y == MoveCoord(loc.lx2, ox2, nr[2] * sh, bcs[2] = "periodic")
      z == MoveCoord(loc.lx3, ox3, nr[3] * sh, bcs[4] = "periodic")
      t == Loc(loc.level, x, y, z)
  IN  IF x < 0 \/ y < 0 \/ z < 0 THEN NullNode
      ELSE Descend(ref, AncestorAt(t, rl), t)

\* non-zero directions of a mesh of dimensionality d
DirectionsOf(d) ==
  { o \in {-1,0,1} \X {-1,0,1} \X {-1,0,1} :
      /\ o # <<0, 0, 0>>
      /\ (d < 2 => o[2] = 0)
      /\ (d < 3 => o[3] = 0) }

\* the tree keeps adjacent leaves within one level of each other
Balanced(nr, rl, d, bcs, ref) ==
  \A l \in LeavesOf(nr, rl, d, ref) : \A o \in DirectionsOf(d) :
     LET nt == FindNeighborIn(nr, rl, bcs, ref, l, o[1], o[2], o[3])
     IN  nt # NullNode => nt.level >= l.level - 1

\* the sets of at most k internal nodes that make a tree over the root grid
RECURSIVE RefinedSets(_, _, _, _)
RefinedSets(nr, rl, d, k) ==
  IF k = 0 THEN { {} }
  ELSE LET prev == RefinedSets(nr, rl, d, k - 1)
       IN  prev \cup UNION { { s \cup {nd} : nd \in LeavesOf(nr, rl, d, s) } : s \in prev }

\* root grids of a mesh of dimensionality d
RootGrids(d) ==
  { nr \in (1..Max2(MaxRoot1D, MaxRootMD)) \X (1..MaxRootMD) \X (1..MaxRootMD) :
      /\ nr[1] <= (IF d = 1 THEN MaxRoot1D ELSE MaxRootMD)
      /\ (d < 2 => nr[2] = 1)
      /\ (d < 3 => nr[3] = 1)
      /\ nr[1] * nr[2] * nr[3] <= MaxLeaves }

\* boundary kinds of the six faces; faces of a degenerate axis take one fixed pair
MeshBcsOf(b1, b2, b3) ==
  [ f \in 0..5 |-> IF f < 2 THEN b1[f + 1] ELSE IF f < 4 THEN b2[f - 1] ELSE b3[f - 3] ]

\* the rank list of a decomposition of n blocks into nranks contiguous ranges
RankListOf(n, nranks) == [ g \in 0..(n - 1) |-> (g * nranks) \div n ]

\* first gid and number of blocks of a rank
GidsEachRank(r) ==
  CHOOSE g \in DOMAIN ranklist :
    ranklist[g] = r /\ \A h \in DOMAIN ranklist : ranklist[h] = r => g <= h
NmbEachRank(r) == Cardinality({ g \in DOMAIN ranklist : ranklist[g] = r })

FindNeighbor(loc, ox1, ox2, ox3) ==
  FindNeighborIn(nmb_root, root_level, mesh_bcs, refined, loc, ox1, ox2, ox3)

\* pleaf_ != nullptr
HasLeaves(nd) == nd \in refined

\* leaves of the subtree of node nd, among the leaves of a location list
LeavesUnder(ll, nd) ==
  { g \in DOMAIN ll : ll[g].level >= nd.level /\ AncestorAt(ll[g], nd.level) = nd }

\* the gid an internal node had while it was a leaf: the leaves before it in the
\* traversal are the ones before its first descendant
StaleGid(ll, nd) ==
  LET under == LeavesUnder(ll, nd)
  IN  CHOOSE g \in under : \A h \in under : g <= h

\* the gid_ members of the nodes: a leaf holds its position in the location
\* list; the internal nodes hold -1 (refined before gids were assigned) when
\* unset, else the gid they had as leaves
TreeGidOf(ll, ref, unset) ==
  [ nd \in { ll[g] : g \in DOMAIN ll } \cup ref |->
      IF nd \in ref THEN (IF unset THEN -1 ELSE StaleGid(ll, nd))
      ELSE CHOOSE g \in DOMAIN ll : ll[g] = nd ]

\* values a read of ranklist[-1] can deliver
GarbageRanks == { -1, 0 }

\* the decomposer is not in use
DecompOff ==
  /\ costs = << >>
  /\ nworkers = 0
  /\ rankOf = << >>
  /\ dpc = "off"
  /\ nruns = 0

\* the radiation update is not in use
BicgOff ==
  /\ num_points = 0
  /\ ncells = 0
  /\ bcell = 0
  /\ bpc = "off"
  /\ index = 0
  /\ n_iter = 0
  /\ x0_arr = << >>
  /\ f0 = << >>
  /\ warnings = << >>
  /\ converged = << >>
  /\ iters = << >>

\* the problem generator is not in use
AdvOff ==
  /\ flow_dir = 0
  /\ iprob = 0
  /\ mb_cells = << >>
  /\ u0 = << >>
  /\ kji = << >>
  /\ apc = "off"

\* --------------------------------------------------------------- Init
\* the meshes within the bounds: dimensionality, root level, root grid, boundary
\* kinds and tree
MeshShapes ==
  UNION { UNION { UNION {
    { [dim |-> d, root_level |-> rl, nmb_root |-> nr,
       mesh_bcs |-> MeshBcsOf(b[1], b[2], b[3]), refined |-> ref] :
        b \in { c \in BCPairs \X BCPairs \X BCPairs :
                  /\ (d < 2 => c[2] = <<"reflect", "outflow">>)
                  /\ (d < 3 => c[3] = <<"reflect", "outflow">>) },
        ref \in { r \in RefinedSets(nr, rl, d, MaxRefined) :
                  Cardinality(LeavesOf(nr, rl, d, r)) <= MaxLeaves } } :
    nr \in RootGrids(d) } : rl \in 0..MaxRootLevel } : d \in 1..3 }

\* the meshes whose tree is balanced
Meshes ==
  { m \in MeshShapes :
      Balanced(m.nmb_root, m.root_level, m.dim, m.mesh_bcs, m.refined) }

\* what the internal nodes' gid_ and the word before the rank list can hold
TreeMemory(ref) ==
  IF ref = {} THEN { <<TRUE, -1>> }
  ELSE { <<FALSE, -1>> } \cup { <<TRUE, junk>> : junk \in GarbageRanks }

\* a mesh, its location list, the gids held by the tree and a decomposition
ConfigsOf(m) ==
  LET ll == LocListOf(m.nmb_root, m.root_level, m.dim, m.refined)
      n == Cardinality(DOMAIN ll)
  IN  { [mesh |-> m, lloclist |-> ll, tree_gid |-> TreeGidOf(ll, m.refined, mem[1]),
         oob_rank |-> mem[2], ranklist |-> RankListOf(n, rk[1]), my_rank |-> rk[2]] :
          mem \in TreeMemory(m.refined),
          rk \in { x \in (1..MaxRanks) \X (0..(MaxRanks - 1)) :
                     x[1] <= n /\ x[2] < x[1] } }

Configs == UNION { ConfigsOf(m) : m \in Meshes }

Init ==
  \E c \in Configs :
    /\ dim = c.mesh.dim
    /\ nmb_root = c.mesh.nmb_root
    /\ root_level = c.mesh.root_level
    /\ mesh_bcs = c.mesh.mesh_bcs
    /\ refined = c.mesh.refined
    /\ lloclist = c.lloclist
    /\ tree_gid = c.tree_gid
    /\ ranklist = c.ranklist
    /\ oob_rank = c.oob_rank
    /\ my_rank = c.my_rank
    /\ pc = "none"
    /\ nmb = 0
    /\ mbgid_h = << >>
    /\ mbgid_d = << >>
    /\ mblev_h = << >>
    /\ mblev_d = << >>
    /\ mbbcs = << >>
    /\ mbbcs_d = << >>
    /\ nnghbr = 0
    /\ nghbr_h = << >>
    /\ nghbr_d = << >>
    /\ qlog = << >>
    /\ nghbr_log = << >>
    /\ nbalance = 0
    /\ DecompOff
    /\ BicgOff
    /\ AdvOff

\* --------------------------------------------------- MeshBlock constructor
\* variant: the low face takes the mesh's kind wherever the block lies (for C14)
InnerBc_AlwaysMesh(lx, face) == mesh_bcs[face]

\* boundary flag of a low face: the mesh's kind when the block is first on the axis
InnerBc(lx, face) == IF lx = 0 THEN mesh_bcs[face] ELSE "block"

\* boundary flag of a high face: the mesh's kind when the block is last on the axis
OuterBc(lx, nmbx, face) == IF lx = nmbx - 1 THEN mesh_bcs[face] ELSE "block"

\* variant: the root-grid count is not shifted to the block's level (for C11)
NmbX_RootOnly(axis, lev) == nmb_root[axis]

\* number of blocks along an axis at level lev: nmb_rootx << (lev - root_level)
NmbX(axis, lev) == Shl(nmb_root[axis], lev - root_level)

\* mbbcs(m, 0..5) of the block at location loc
BlockBcs(loc) ==
  [ f \in 0..5 |->
      CASE f = 0 -> InnerBc(loc.lx1, inner_x1)
        [] f = 1 -> OuterBc(loc.lx1, NmbX(1, loc.level), outer_x1)
        [] f = 2 -> IF MeshNx2IsOne THEN mesh_bcs[inner_x2]
                    ELSE InnerBc(loc.lx2, inner_x2)
        [] f = 3 -> IF MeshNx2IsOne THEN mesh_bcs[outer_x2]
                    ELSE OuterBc(loc.lx2, NmbX(2, loc.level), outer_x2)
        [] f = 4 -> IF MeshNx3IsOne THEN mesh_bcs[inner_x3]
                    ELSE InnerBc(loc.lx3, inner_x3)
        [] OTHER -> IF MeshNx3IsOne THEN mesh_bcs[outer_x3]
                    ELSE OuterBc(loc.lx3, NmbX(3, loc.level), outer_x3) ]

\* DualArray sync<DevExeSpace>: the device view takes the host view when the host
\* view is marked modified
DeviceSync(h_view, d_view, modified_host) == IF modified_host THEN h_view ELSE d_view

\* variant: every local block is given the first gid (for C24)
BlockGid_First(igids, m) == igids

\* mbgid.h_view(m)
BlockGid(igids, m) == igids + m

\* variant: every local block is taken to be at the root level (for C28)
BlockLev_Root(igids, m) == root_level

\* mblev.h_view(m)
BlockLev(igids, m) == lloclist[igids + m].level

\* MeshBlock::MeshBlock(ppack, igids, nmb)
MeshBlockCtor ==
  /\ pc = "none"
  /\ LET igids == GidsEachRank(my_rank)
         n == NmbEachRank(my_rank)
         gid == [ m \in 0..(n - 1) |-> BlockGid(igids, m) ]
         lev == [ m \in 0..(n - 1) |-> BlockLev(igids, m) ]
     IN  /\ nmb' = n
         /\ mbgid_h' = gid
         /\ mblev_h' = lev
         /\ mbbcs' = [ m \in 0..(n - 1) |-> BlockBcs(lloclist[igids + m]) ]
         /\ mbgid_d' = DeviceSync(gid, [ m \in 0..(n - 1) |-> 0 ], TRUE)
         /\ mblev_d' = DeviceSync(lev, [ m \in 0..(n - 1) |-> 0 ], TRUE)
  /\ mbbcs_d' = mbbcs_d
  /\ pc' = "constructed"
  /\ UNCHANGED <<meshvars, nghbrvars, nbalance, othervars>>

\* ------------------------------------------------- MeshBlock::SetNeighbors
\* the values of the loop variables n, m, l
Sgn == << -1, 1 >>

\* "no neighbor": what every slot holds before the search
Sentinel == [gid |-> -1, lev |-> -1, rank |-> -1, destn |-> -1]

\* slot written and destn stored, per group of directions
X1FaceSlot(n) == (1 + n) \div 2
\* variant: the destn of an x1 face is the slot itself (for C21)
X1FaceDestn_SameSide(n) == (1 + n) \div 2
X1FaceDestn(n) == (1 - n) \div 2
\* variant: the x2-face slots are not halved and run into the edge slots (for C3)
X2FaceSlot_Unhalved(m) == 2 + (1 + m)
X2FaceSlot(m) == 2 + (1 + m) \div 2
X2FaceDestn(m) == 2 + (1 - m) \div 2
X1X2EdgeSlot(m, n) == 4 + (1 + m) + (1 + n) \div 2
\* variant: destn computed without negating the signs (for C1)
X1X2EdgeDestn_Unnegated(m, n) == 4 + (1 + m) + (1 + n) \div 2
X1X2EdgeDestn(m, n) == 4 + (1 - m) + (1 - n) \div 2
X3FaceSlot(l) == 8 + (1 + l) \div 2
X3FaceDestn(l) == 8 + (1 - l) \div 2
X3X1EdgeSlot(l, n) == 10 + (1 + l) + (1 + n) \div 2
X3X1EdgeDestn(l, n) == 10 + (1 - l) + (1 - n) \div 2
X2X3EdgeSlot(l, m) == 14 + (1 + l) + (1 + m) \div 2
X2X3EdgeDestn(l, m) == 14 + (1 - l) + (1 - m) \div 2
CornerSlot(l, m, n) == 18 + 2 * (1 + l) + (1 + m) + (1 + n) \div 2
\* variant: the x1 sign is not negated (for C2)
CornerDestn_KeepX1(l, m, n) == 18 + 2 * (1 - l) + (1 - m) + (1 + n) \div 2
CornerDestn(l, m, n) == 18 + 2 * (1 - l) + (1 - m) + (1 - n) \div 2

\* one FindNeighbor call of the search: its offsets, the slot it writes, the destn
\* it stores, and whether it is in the x1-face loop (which looks for finer leaves)
Query(o1, o2, o3, s, d, x1f) ==
  [ox1 |-> o1, ox2 |-> o2, ox3 |-> o3, slot |-> s, destn |-> d, x1face |-> x1f]

X1FaceQueries ==
  [ i \in 1..2 |-> LET n == Sgn[i]
                   IN  Query(n, 0, 0, X1FaceSlot(n), X1FaceDestn(n), TRUE) ]
X2FaceQueries ==
  [ i \in 1..2 |-> LET m == Sgn[i]
                   IN  Query(0, m, 0, X2FaceSlot(m), X2FaceDestn(m), FALSE) ]
X1X2EdgeQueries ==
  [ i \in 1..4 |-> LET m == Sgn[((i - 1) \div 2) + 1]
                       n == Sgn[((i - 1) % 2) + 1]
                   IN  Query(n, m, 0, X1X2EdgeSlot(m, n), X1X2EdgeDestn(m, n), FALSE) ]
X3FaceQueries ==
  [ i \in 1..2 |-> LET l == Sgn[i]
                   IN  Query(0, 0, l, X3FaceSlot(l), X3FaceDestn(l), FALSE) ]
X3X1EdgeQueries ==
  [ i \in 1..4 |-> LET l == Sgn[((i - 1) \div 2) + 1]
                       n == Sgn[((i - 1) % 2) + 1]
                   IN  Query(n, 0, l, X3X1EdgeSlot(l, n), X3X1EdgeDestn(l, n), FALSE) ]
X2X3EdgeQueries ==
  [ i \in 1..4 |-> LET l == Sgn[((i - 1) \div 2) + 1]
                       m == Sgn[((i - 1) % 2) + 1]
                   IN  Query(0, m, l, X2X3EdgeSlot(l, m), X2X3EdgeDestn(l, m), FALSE) ]
CornerQueries ==
  [ i \in 1..8 |-> LET l == Sgn[((i - 1) \div 4) + 1]
                       m == Sgn[(((i - 1) \div 2) % 2) + 1]
                       n == Sgn[((i - 1) % 2) + 1]
                   IN  Query(n, m, l, CornerSlot(l, m, n), CornerDestn(l, m, n), FALSE) ]

\* variant: the loops over x2 and x3 offsets run whatever the dimensionality
\* (for C22)
Queries_Unguarded ==
  X1FaceQueries \o X2FaceQueries \o X1X2EdgeQueries \o X3FaceQueries
  \o X3X1EdgeQueries \o X2X3EdgeQueries \o CornerQueries

\* the FindNeighbor calls made for one block, in program order
Queries ==
  X1FaceQueries
  \o (IF multi_d THEN X2FaceQueries \o X1X2EdgeQueries ELSE << >>)
  \o (IF three_d THEN X3FaceQueries \o X3X1EdgeQueries \o X2X3EdgeQueries
                      \o CornerQueries
      ELSE << >>)

\* nnghbr after the three tests on the dimensionality flags
NewNnghbr ==
  LET a == IF one_d THEN 2 ELSE nnghbr
      b == IF two_d THEN 8 ELSE a
  IN  IF three_d THEN 26 ELSE b

\* variant: every neighbor is taken to live on the calling rank (for C10)
RankAt_Own(g) == my_rank

\* ranklist[g]: a read at -1 delivers what lies before the list
RankAt(g) == IF g \in DOMAIN ranklist THEN ranklist[g] ELSE oob_rank

\* variant: the child on the side away from the querying block is taken (for C26)
RecordedNode_FarSide(q, nt) ==
  IF q.x1face /\ HasLeaves(nt)
  THEN GetLeaf(nt, (q.ox1 + 1) \div 2, 0, 0)
  ELSE nt

\* the node whose gid and level a query records: on an x1 face with a finer
\* neighbor the child on the facing side (fface), else the node found
RecordedNode(q, nt) ==
  IF q.x1face /\ HasLeaves(nt)
  THEN GetLeaf(nt, 1 - (q.ox1 + 1) \div 2, 0, 0)
  ELSE nt

\* variant: the entry stores the level below the recorded node's (for C9)
EntryFor_LevelBelow(q, nt) ==
  LET nd == RecordedNode(q, nt)
  IN  [gid |-> tree_gid[nd], lev |-> nd.level + 1, rank |-> RankAt(tree_gid[nd]),
       destn |-> q.destn]

\* the entry a query stores for the node FindNeighbor returned
EntryFor(q, nt) ==
  LET nd == RecordedNode(q, nt)
  IN  [gid |-> tree_gid[nd], lev |-> nd.level, rank |-> RankAt(tree_gid[nd]),
       destn |-> q.destn]

\* variant: only the face queries are made (for C5)
SearchBlock_FacesOnly(row, qs, loc) ==
  [ s \in DOMAIN row |->
      LET hits == { i \in 1..Len(qs) :
                      /\ qs[i].slot = s
                      /\ Cardinality({ o \in {qs[i].ox1, qs[i].ox2, qs[i].ox3} : o # 0 }) = 1
                      /\ FindNeighbor(loc, qs[i].ox1, qs[i].ox2, qs[i].ox3) # NullNode }
      IN  IF hits = {} THEN row[s]
          ELSE LET q == qs[CHOOSE j \in hits : TRUE]
               IN  EntryFor(q, FindNeighbor(loc, q.ox1, q.ox2, q.ox3)) ]

\* variant: the search of a block ends at the first query that finds no node
\* (for C15)
SearchBlock_StopAtNull(row, qs, loc) ==
  LET null == { i \in 1..Len(qs) :
                  FindNeighbor(loc, qs[i].ox1, qs[i].ox2, qs[i].ox3) = NullNode }
  IN  [ s \in DOMAIN row |->
          LET hits == { i \in 1..Len(qs) :
                          qs[i].slot = s /\ \A j \in null : i < j }
          IN  IF hits = {} THEN row[s]
              ELSE LET q == qs[CHOOSE j \in hits : TRUE]
                   IN  EntryFor(q, FindNeighbor(loc, q.ox1, q.ox2, q.ox3)) ]

\* the search of one block: every query that finds a node writes its slot, in
\* program order (a later write to the same slot overwrites an earlier one)
SearchBlock(row, qs, loc) ==
  LET nodes == [ i \in 1..Len(qs) |->
                   FindNeighbor(loc, qs[i].ox1, qs[i].ox2, qs[i].ox3) ] \o << >>
      found == { i \in 1..Len(qs) : nodes[i] # NullNode }
  IN  [ s \in DOMAIN row |->
          LET hits == { i \in found : qs[i].slot = s }
          IN  IF hits = {} THEN row[s]
              ELSE LET i == CHOOSE j \in hits : \A k \in hits : k <= j
                   IN  EntryFor(qs[i], nodes[i]) ]

\* variant: the slots start zeroed instead of holding the sentinel (for C4)
InitialTable_Zeroed(n_mb, n_nghbr) ==
  [ m \in 0..(n_mb - 1) |->
      [ n \in 0..(n_nghbr - 1) |-> [gid |-> 0, lev |-> 0, rank |-> 0, destn |-> 0] ] ]

\* the host view after the initialisation loop
InitialTable(n_mb, n_nghbr) ==
  [ m \in 0..(n_mb - 1) |-> [ n \in 0..(n_nghbr - 1) |-> Sentinel ] ]

\* the search loop over the local blocks, applied to a host view
SearchedFrom(tab) ==
  LET qs == Queries
  IN  [ b \in 0..(nmb - 1) |-> SearchBlock(tab[b], qs, lloclist[mbgid_h[b]]) ]

\* the host view after the initialisation loop and the search loop
SearchedTable(n_nghbr) == SearchedFrom(InitialTable(nmb, n_nghbr))

\* history: the offsets of the FindNeighbor calls made for each local block, in
\* program order, with the slot each call writes when it finds a node
QueryLog ==
  LET qs == Queries
  IN  [ i \in 1..Len(qs) |->
          [ox1 |-> qs[i].ox1, ox2 |-> qs[i].ox2, ox3 |-> qs[i].ox3, slot |-> qs[i].slot] ]

\* the views Kokkos::realloc leaves: freshly allocated, value-initialised
ReallocTable(n_mb, n_nghbr) ==
  [ m \in 0..(n_mb - 1) |->
      [ n \in 0..(n_nghbr - 1) |-> [gid |-> 0, lev |-> 0, rank |-> 0, destn |-> 0] ] ]

\* one step of SetNeighbors on the nghbr DualArray st = [h, d, modified_host, log]
ApplyStep(step, st, n_nghbr) ==
  LET logged == Append(st.log, step)
  IN  CASE step = "realloc" ->
             [h |-> ReallocTable(nmb, n_nghbr), d |-> ReallocTable(nmb, n_nghbr),
              modified_host |-> FALSE, log |-> logged]
        [] step = "init" ->
             [st EXCEPT !.h = InitialTable(nmb, n_nghbr), !.log = logged]
        [] step = "search" ->
             [st EXCEPT !.h = SearchedFrom(st.h), !.log = logged]
        [] step = "modify_host" ->
             [st EXCEPT !.modified_host = TRUE, !.log = logged]
        [] OTHER ->
             [st EXCEPT !.d = DeviceSync(st.h, st.d, st.modified_host),
                        !.modified_host = FALSE, !.log = logged]

RECURSIVE RunSteps(_, _, _, _)
RunSteps(steps, i, st, n_nghbr) ==
  IF i > Len(steps) THEN st
  ELSE RunSteps(steps, i + 1, ApplyStep(steps[i], st, n_nghbr), n_nghbr)

\* variant: the table is synchronized before the search fills it (for C16)
SetNeighborsSteps_SyncFirst == << "realloc", "init", "modify_host", "sync_device", "search" >>

\* variant: a table that exists already is published again without a rebuild
\* (for C19)
SetNeighborsSteps_OnceOnly ==
  IF nghbr_h # << >> THEN << "modify_host", "sync_device" >>
  ELSE << "realloc", "init", "search", "modify_host", "sync_device" >>

\* the statements of SetNeighbors that touch nghbr, in program order
SetNeighborsSteps == << "realloc", "init", "search", "modify_host", "sync_device" >>

\* variant: the call also refreshes the device view of the levels (for C20)
SetNeighborsFrame_TouchesLevels ==
  /\ mblev_d' = [ m \in DOMAIN mblev_d |-> -1 ]
  /\ UNCHANGED <<meshvars, nmb, mbgid_h, mbgid_d, mblev_h, mbbcs, mbbcs_d, nbalance,
                 othervars>>

\* what SetNeighbors leaves alone: everything but nnghbr and nghbr
SetNeighborsFrame == UNCHANGED <<meshvars, ctorvars, nbalance, othervars>>

\* MeshBlock::SetNeighbors(ptree, ranklist)
SetNeighbors ==
  /\ pc \in {"constructed", "neighbors"}
  /\ \E n \in { NewNnghbr } :
     \E after \in { RunSteps(SetNeighborsSteps, 1,
                             [h |-> nghbr_h, d |-> nghbr_d,
                              modified_host |-> FALSE, log |-> << >>], n) } :
         /\ nnghbr' = n
         /\ nghbr_h' = after.h
         /\ nghbr_d' = after.d
         /\ nghbr_log' = after.log
  /\ qlog' = QueryLog
  /\ pc' = "neighbors"
  /\ SetNeighborsFrame

\* the rank maps of the decompositions of the mesh's blocks
RankMaps ==
  { RankListOf(NLeaves, k) : k \in { j \in 1..MaxRanks : j <= NLeaves } }

\* environment: the load balancer replaces the rank map by a newly allocated
\* one (what lies before its first element is again arbitrary, and matters when
\* a node of the tree holds gid -1); the neighbor table is out of date until
\* SetNeighbors runs again
LoadBalance ==
  /\ pc = "neighbors"
  /\ nbalance < MaxRebalance
  /\ \E rl \in RankMaps \ {ranklist} : ranklist' = rl
  /\ \E g \in (IF \E nd \in DOMAIN tree_gid : tree_gid[nd] = -1
               THEN GarbageRanks ELSE { oob_rank }) : oob_rank' = g
  /\ nbalance' = nbalance + 1
  /\ pc' = "constructed"
  /\ UNCHANGED <<dim, nmb_root, root_level, mesh_bcs, refined, lloclist, tree_gid,
                 my_rank, ctorvars, nghbrvars, othervars>>

Next == MeshBlockCtor \/ SetNeighbors \/ LoadBalance

Spec == Init /\ [][Next]_vars

\* ------------------------------------------------------------ properties
\* notions the properties below share
Done == pc = "neighbors"
LocalBlocks == 0..(nmb - 1)
BlockLoc(b) == lloclist[mbgid_h[b]]
Written(e) == e # Sentinel
Populated(e) == e.gid # -1
IsLocalGid(g) == \E m \in LocalBlocks : mbgid_h[m] = g
LocalIndex(g) == CHOOSE m \in LocalBlocks : mbgid_h[m] = g
\* the node the tree returns for the i-th query of block b
FoundAt(b, i) == FindNeighbor(BlockLoc(b), qlog[i].ox1, qlog[i].ox2, qlog[i].ox3)
\* the leaf a populated entry names
NamedLeaf(e) == lloclist[e.gid]
\* the slot the search uses for a direction
SlotOfDir(o1, o2, o3) ==
  qlog[CHOOSE i \in DOMAIN qlog :
         qlog[i].ox1 = o1 /\ qlog[i].ox2 = o2 /\ qlog[i].ox3 = o3].slot
FullyPeriodic ==
  /\ mesh_bcs[inner_x1] = "periodic"
  /\ (multi_d => mesh_bcs[inner_x2] = "periodic")
  /\ (three_d => mesh_bcs[inner_x3] = "periodic")

\* C1: reciprocity. Whenever the entry of local block B at slot s names a block
\* N (by gid) that is at the same level as B and is local too, N's entry at
\* slot destn names B and carries destn = s; N may be B itself (periodic wrap).
C1_Reciprocity ==
  Done =>
    \A b \in LocalBlocks : \A s \in DOMAIN nghbr_h[b] :
      LET e == nghbr_h[b][s]
      IN  (/\ Populated(e)
           /\ e.gid \in DOMAIN lloclist
           /\ NamedLeaf(e).level = mblev_h[b]
           /\ IsLocalGid(e.gid))
          => LET n == LocalIndex(e.gid)
             IN  /\ e.destn \in DOMAIN nghbr_h[n]
                 /\ nghbr_h[n][e.destn].gid = mbgid_h[b]
                 /\ nghbr_h[n][e.destn].destn = s

\* C1 witness: a refined 3D mesh where a block has a same-level neighbor other
\* than itself across a corner, both on the calling rank.
C1_Witness ==
  /\ Done
  /\ dim = 3
  /\ refined # {}
  /\ \E b \in LocalBlocks : \E s \in 18..25 :
       /\ s \in DOMAIN nghbr_h[b]
       /\ Populated(nghbr_h[b][s])
       /\ nghbr_h[b][s].gid # mbgid_h[b]
       /\ nghbr_h[b][s].gid \in DOMAIN lloclist
       /\ NamedLeaf(nghbr_h[b][s]).level = mblev_h[b]
       /\ IsLocalGid(nghbr_h[b][s].gid)

\* C2: every entry the search writes carries as destn the slot the search uses
\* for the opposite direction, whatever the level of the neighbor; hence destn
\* is never the entry's own slot, and the slot-to-destn map is an involution.
C2_DestnIsOppositeSlot ==
  Done =>
    \A b \in LocalBlocks : \A i \in DOMAIN qlog :
      LET q == qlog[i]
          e == nghbr_h[b][q.slot]
      IN  Written(e) =>
            /\ e.destn = SlotOfDir(-q.ox1, -q.ox2, -q.ox3)
            /\ e.destn # q.slot
            /\ \A c \in LocalBlocks :
                 Written(nghbr_h[c][e.destn]) => nghbr_h[c][e.destn].destn = q.slot

\* C2 witness: a written entry across an x2-x3 edge whose level differs from the
\* block's own.
C2_Witness ==
  /\ Done
  /\ \E b \in LocalBlocks : \E s \in 14..17 :
       /\ s \in DOMAIN nghbr_h[b]
       /\ Written(nghbr_h[b][s])
       /\ nghbr_h[b][s].lev # mblev_h[b]

\* the group of directions a slot belongs to in the documented layout
LayoutOK(q) ==
  LET a1 == q.ox1 # 0
      a2 == q.ox2 # 0
      a3 == q.ox3 # 0
  IN  CASE q.slot \in 0..1   -> a1 /\ ~a2 /\ ~a3
        [] q.slot \in 2..3   -> ~a1 /\ a2 /\ ~a3
        [] q.slot \in 4..7   -> a1 /\ a2 /\ ~a3
        [] q.slot \in 8..9   -> ~a1 /\ ~a2 /\ a3
        [] q.slot \in 10..13 -> a1 /\ ~a2 /\ a3
        [] q.slot \in 14..17 -> ~a1 /\ a2 /\ a3
        [] q.slot \in 18..25 -> a1 /\ a2 /\ a3
        [] OTHER -> FALSE

\* C3: the directions queried are exactly the non-zero directions of the mesh's
\* dimensionality, each once; their slots are exactly 0..nnghbr-1, each once,
\* in the layout x1 faces, x2 faces, x1-x2 edges, x3 faces, x3-x1 edges, x2-x3
\* edges, corners; every slot written lies in 0..nnghbr-1.
C3_SlotBijection ==
  Done =>
    /\ { <<qlog[i].ox1, qlog[i].ox2, qlog[i].ox3>> : i \in DOMAIN qlog } = DirectionsOf(dim)
    /\ { qlog[i].slot : i \in DOMAIN qlog } = 0..(nnghbr - 1)
    /\ \A i, j \in DOMAIN qlog :
         i # j => /\ qlog[i].slot # qlog[j].slot
                  /\ <<qlog[i].ox1, qlog[i].ox2, qlog[i].ox3>>
                       # <<qlog[j].ox1, qlog[j].ox2, qlog[j].ox3>>
    /\ \A i \in DOMAIN qlog : LayoutOK(qlog[i])
    /\ \A b \in LocalBlocks :
         Cardinality({ s \in DOMAIN nghbr_h[b] : Written(nghbr_h[b][s]) })
           = Cardinality({ i \in DOMAIN qlog : FoundAt(b, i) # NullNode })

\* C3 witness: a fully periodic 3D mesh, where every one of the 26 directions
\* of a block finds a node and all 26 slots are written.
C3_Witness ==
  /\ Done
  /\ dim = 3
  /\ FullyPeriodic
  /\ \E b \in LocalBlocks : \A s \in 0..25 : Written(nghbr_h[b][s])

\* C4: the table has nmb rows of exactly N slots, N = 2, 8, 26 for a 1D, 2D, 3D
\* mesh, and every slot starts as the sentinel: a slot whose query finds no node
\* still holds (-1,-1,-1,-1).
C4_TableShape ==
  Done =>
    /\ nnghbr = (CASE dim = 1 -> 2 [] dim = 2 -> 8 [] OTHER -> 26)
    /\ DOMAIN nghbr_h = 0..(nmb - 1)
    /\ \A b \in LocalBlocks :
         /\ DOMAIN nghbr_h[b] = 0..(nnghbr - 1)
         /\ \A i \in DOMAIN qlog :
              FoundAt(b, i) = NullNode => nghbr_h[b][qlog[i].slot] = Sentinel

\* C4 witness: a 2D mesh whose block keeps a sentinel in one of its 8 slots.
C4_Witness ==
  /\ Done
  /\ dim = 2
  /\ nmb > 1
  /\ \E b \in LocalBlocks : \E s \in 0..7 : nghbr_h[b][s] = Sentinel

\* whether a direction leaves the domain across a non-periodic boundary
ExitsDomain(loc, o1, o2, o3) ==
  LET out(x, o, axis) == x + o < 0 \/ x + o > NmbAt(axis, loc.level) - 1
  IN  \/ (out(loc.lx1, o1, 1) /\ mesh_bcs[inner_x1] # "periodic")
      \/ (out(loc.lx2, o2, 2) /\ mesh_bcs[inner_x2] # "periodic")
      \/ (out(loc.lx3, o3, 3) /\ mesh_bcs[inner_x3] # "periodic")

\* C5: on a uniform (unrefined) mesh a slot is populated exactly when its
\* direction does not leave the domain across a non-periodic boundary.
C5_UniformCoverage ==
  (Done /\ refined = {}) =>
    \A b \in LocalBlocks : \A i \in DOMAIN qlog :
      Populated(nghbr_h[b][qlog[i].slot])
        <=> ~ExitsDomain(BlockLoc(b), qlog[i].ox1, qlog[i].ox2, qlog[i].ox3)

\* C5 witness: a uniform 3D mesh, periodic along x2 only, with a block whose
\* corner slot is a sentinel and whose x2-face slot is populated.
C5_Witness ==
  /\ Done
  /\ refined = {}
  /\ dim = 3
  /\ mesh_bcs[inner_x2] = "periodic"
  /\ mesh_bcs[inner_x1] # "periodic"
  /\ \E b \in LocalBlocks :
       /\ nghbr_h[b][18] = Sentinel
       /\ Populated(nghbr_h[b][2])

\* the gid of a leaf, from the logical location list
GidOf(leaf) == CHOOSE g \in DOMAIN lloclist : lloclist[g] = leaf
IsLeaf(nd) == \E g \in DOMAIN lloclist : lloclist[g] = nd
IsFaceQuery(q) == Cardinality({ a \in 1..3 : <<q.ox1, q.ox2, q.ox3>>[a] # 0 }) = 1

\* the children of the node found across a face that touch the face: along the
\* axis of the face they lie on the side facing the querying block
TouchingChildren(nt, q) ==
  { GetLeaf(nt, o[1], o[2], o[3]) : o \in
      { oc \in OctantsOf(dim) :
          /\ (q.ox1 # 0 => oc[1] = 1 - (q.ox1 + 1) \div 2)
          /\ (q.ox2 # 0 => oc[2] = 1 - (q.ox2 + 1) \div 2)
          /\ (q.ox3 # 0 => oc[3] = 1 - (q.ox3 + 1) \div 2) } }

\* the faces of local blocks across which the neighbor is finer
FinerFaces ==
  { bi \in LocalBlocks \X DOMAIN qlog :
      IsFaceQuery(qlog[bi[2]]) /\ HasLeaves(FoundAt(bi[1], bi[2])) }

\* C6: across a face with a finer neighbor, the entries recorded for the face
\* name every finer leaf touching the face: 2 distinct gids in 2D, 4 in 3D.
C6_FinerFaceTiling ==
  Done =>
    \A bi \in FinerFaces :
      LET b == bi[1]
          q == qlog[bi[2]]
          touching == TouchingChildren(FoundAt(b, bi[2]), q)
      IN  /\ \A c \in touching : IsLeaf(c)
          /\ \A c \in touching :
               \E s \in DOMAIN nghbr_h[b] :
                 /\ nghbr_h[b][s].gid = GidOf(c)
                 /\ nghbr_h[b][s].destn = SlotOfDir(-q.ox1, -q.ox2, -q.ox3)
          /\ (dim = 2 => Cardinality({ GidOf(c) : c \in touching }) = 2)
          /\ (dim = 3 => Cardinality({ GidOf(c) : c \in touching }) = 4)

\* C7: cross-level reciprocity. Every finer leaf F touching a face of a coarser
\* leaf B names B (gid and level) at its slot pointing back at B, and B's table
\* has an entry naming F whose destn is that slot of F.
C7_CrossLevelReciprocity ==
  Done =>
    \A bi \in FinerFaces :
      LET b == bi[1]
          q == qlog[bi[2]]
          back == SlotOfDir(-q.ox1, -q.ox2, -q.ox3)
      IN  \A c \in TouchingChildren(FoundAt(b, bi[2]), q) :
            (IsLeaf(c) /\ IsLocalGid(GidOf(c))) =>
              LET f == LocalIndex(GidOf(c))
              IN  /\ nghbr_h[f][back].gid = mbgid_h[b]
                  /\ nghbr_h[f][back].lev = mblev_h[b]
                  /\ \E s \in DOMAIN nghbr_h[b] :
                       /\ nghbr_h[b][s].gid = GidOf(c)
                       /\ nghbr_h[b][s].destn = back

\* the half of C7 the search does establish: the finer leaf names the coarser one
C7_FinerNamesCoarser ==
  Done =>
    \A bi \in FinerFaces :
      LET b == bi[1]
          q == qlog[bi[2]]
          back == SlotOfDir(-q.ox1, -q.ox2, -q.ox3)
      IN  \A c \in TouchingChildren(FoundAt(b, bi[2]), q) :
            (IsLeaf(c) /\ IsLocalGid(GidOf(c))) =>
              LET f == LocalIndex(GidOf(c))
              IN  /\ nghbr_h[f][back].gid = mbgid_h[b]
                  /\ nghbr_h[f][back].lev = mblev_h[b]

\* C8: every populated entry names a leaf and carries that leaf's level; where
\* the node found is internal, in any direction, the entry records a child leaf
\* of that node and never the internal node's own gid and level.
C8_EntriesNameLeaves ==
  Done =>
    \A b \in LocalBlocks :
      /\ \A s \in DOMAIN nghbr_h[b] :
           Populated(nghbr_h[b][s]) =>
             /\ nghbr_h[b][s].gid \in DOMAIN lloclist
             /\ nghbr_h[b][s].lev = NamedLeaf(nghbr_h[b][s]).level
      /\ \A i \in DOMAIN qlog :
           HasLeaves(FoundAt(b, i)) =>
             \E c \in ChildrenOf(FoundAt(b, i), dim) :
               /\ IsLeaf(c)
               /\ nghbr_h[b][qlog[i].slot].gid = GidOf(c)
               /\ nghbr_h[b][qlog[i].slot].lev = c.level

\* the x1-face part of C8, which the GetLeaf branch does establish
C8_X1FacesNameLeaves ==
  Done =>
    \A b \in LocalBlocks : \A i \in DOMAIN qlog :
      (qlog[i].ox2 = 0 /\ qlog[i].ox3 = 0 /\ HasLeaves(FoundAt(b, i))) =>
        LET c == GetLeaf(FoundAt(b, i), 1 - (qlog[i].ox1 + 1) \div 2, 0, 0)
        IN  /\ IsLeaf(c)
            /\ nghbr_h[b][qlog[i].slot].gid = GidOf(c)
            /\ nghbr_h[b][qlog[i].slot].lev = c.level

\* C9: a query whose node is a leaf at the block's level or coarser writes its
\* own slot with that leaf's gid and level; no slot is written other than by the
\* query it belongs to.
C9_LeafMatchOneEntry ==
  Done =>
    \A b \in LocalBlocks :
      /\ \A i \in DOMAIN qlog :
           LET nt == FoundAt(b, i)
           IN  (nt # NullNode /\ ~HasLeaves(nt)) =>
                 /\ IsLeaf(nt)
                 /\ nt.level <= mblev_h[b]
                 /\ nghbr_h[b][qlog[i].slot].gid = GidOf(nt)
                 /\ nghbr_h[b][qlog[i].slot].lev = nt.level
                 /\ \A j \in DOMAIN qlog : j # i => qlog[j].slot # qlog[i].slot
      /\ \A s \in DOMAIN nghbr_h[b] :
           Written(nghbr_h[b][s]) =>
             \E j \in DOMAIN qlog : qlog[j].slot = s /\ FoundAt(b, j) # NullNode

\* C9 witness: a block with both a coarser leaf and a same-level leaf among its
\* neighbors, next to a direction with no node at all.
C9_Witness ==
  /\ Done
  /\ \E b \in LocalBlocks :
       /\ \E i \in DOMAIN qlog :
            /\ FoundAt(b, i) # NullNode
            /\ ~HasLeaves(FoundAt(b, i))
            /\ FoundAt(b, i).level < mblev_h[b]
            /\ nghbr_h[b][qlog[i].slot].lev = mblev_h[b] - 1
       /\ \E i \in DOMAIN qlog :
            /\ FoundAt(b, i) # NullNode
            /\ nghbr_h[b][qlog[i].slot].lev = mblev_h[b]
       /\ \E i \in DOMAIN qlog : nghbr_h[b][qlog[i].slot] = Sentinel

\* C10: every populated entry carries rank = ranklist[gid], and no SetNeighbors
\* step changes the rank map.
C10_RankFromRanklist ==
  /\ [](Done =>
         \A b \in LocalBlocks : \A s \in DOMAIN nghbr_h[b] :
           Populated(nghbr_h[b][s]) =>
             /\ nghbr_h[b][s].gid \in DOMAIN ranklist
             /\ nghbr_h[b][s].rank = ranklist[nghbr_h[b][s].gid])
  /\ [][pc' = "neighbors" => ranklist' = ranklist]_vars

\* C10 witness: a populated entry whose neighbor lives on another rank.
C10_Witness ==
  /\ Done
  /\ \E b \in LocalBlocks : \E s \in DOMAIN nghbr_h[b] :
       /\ Populated(nghbr_h[b][s])
       /\ nghbr_h[b][s].rank # my_rank
       /\ nghbr_h[b][s].rank = ranklist[nghbr_h[b][s].gid]

\* ------------------------------------------- properties of the constructor
Constructed == pc # "none"
\* the axes along which the mesh has more than one cell
ActiveAxes == 1..dim
\* coordinate of a location along an axis
Coord(loc, a) == <<loc.lx1, loc.lx2, loc.lx3>>[a]
\* the low and high face of an axis, as indices of mbbcs and mesh_bcs
LowFace(a) == 2 * a - 2
HighFace(a) == 2 * a - 1
\* the last block coordinate along an axis at a level
LastCoord(a, level) == nmb_root[a] * Pow2(level - root_level) - 1

\* C11: on a non-degenerate axis the low face carries the mesh's inner kind
\* exactly when the block's coordinate is 0, the high face the mesh's outer
\* kind exactly when the coordinate is nmb_root*2^(level-root_level)-1, and
\* every other face is "block"; so a single root block has only physical
\* faces, and the blocks of a 2x2x2 root grid have three of each.
C11_FaceClassification ==
  Constructed =>
    \A b \in LocalBlocks : \A a \in ActiveAxes :
      LET loc == BlockLoc(b)
          atLow == Coord(loc, a) = 0
          atHigh == Coord(loc, a) = LastCoord(a, loc.level)
      IN  /\ mbbcs[b][LowFace(a)] = (IF atLow THEN mesh_bcs[LowFace(a)] ELSE "block")
          /\ mbbcs[b][HighFace(a)] = (IF atHigh THEN mesh_bcs[HighFace(a)] ELSE "block")
          /\ (mbbcs[b][LowFace(a)] = "block") <=> ~atLow
          /\ (mbbcs[b][HighFace(a)] = "block") <=> ~atHigh
          /\ (Cardinality(DOMAIN lloclist) = 1 =>
                \A f \in 0..5 : mbbcs[b][f] = mesh_bcs[f])
          /\ ((nmb_root = <<2, 2, 2>> /\ refined = {}) =>
                /\ Cardinality({ f \in 0..5 : mbbcs[b][f] = "block" }) = 3
                /\ Cardinality({ f \in 0..5 : mbbcs[b][f] = mesh_bcs[f] }) = 3)

\* C11 witness: a refined 2D mesh with a finer block on the high x1 edge of the
\* domain whose low x1 face is "block", next to the 2x2x2 root grid case.
C11_Witness ==
  /\ Constructed
  /\ dim = 2
  /\ \E b \in LocalBlocks :
       /\ mblev_h[b] > root_level
       /\ BlockLoc(b).lx1 = LastCoord(1, mblev_h[b])
       /\ BlockLoc(b).lx1 > nmb_root[1] - 1
       /\ mbbcs[b][1] = mesh_bcs[1]
       /\ mbbcs[b][0] = "block"

\* the 2x2x2 root grid of C11: every block has three physical and three block faces
C11_Witness2x2x2 ==
  /\ Constructed
  /\ nmb_root = <<2, 2, 2>>
  /\ refined = {}
  /\ nmb = 8
  /\ \A b \in LocalBlocks : Cardinality({ f \in 0..5 : mbbcs[b][f] = "block" }) = 3

\* C12: on a degenerate axis (x2 of a 1D mesh; x3 of a 1D or 2D mesh) both faces
\* of every block carry the mesh's inner and outer kind of that axis, whatever
\* the block's coordinate and level, and never "block".
C12_DegenerateAxes ==
  Constructed =>
    \A b \in LocalBlocks : \A a \in (1..3) \ ActiveAxes :
      /\ mbbcs[b][LowFace(a)] = mesh_bcs[LowFace(a)]
      /\ mbbcs[b][HighFace(a)] = mesh_bcs[HighFace(a)]
      /\ mbbcs[b][LowFace(a)] # "block"
      /\ mbbcs[b][HighFace(a)] # "block"

\* C12 witness: a refined 1D mesh: a finer block has x2 coordinate 0 while the
\* x2 count shifted to its level is 2, and still both x2 faces are physical.
C12_Witness ==
  /\ Constructed
  /\ dim = 1
  /\ \E b \in LocalBlocks :
       /\ mblev_h[b] > root_level
       /\ BlockLoc(b).lx2 # LastCoord(2, mblev_h[b])
       /\ mbbcs[b][3] = mesh_bcs[3]
       /\ mbbcs[b][2] = mesh_bcs[2]

\* the neighbor slot of a face of mbbcs: 0,1 for x1, 2,3 for x2, 8,9 for x3
FaceSlot(f) == IF f < 4 THEN f ELSE f + 4
\* the faces on the axes along which the mesh has more than one cell
ActiveFaces == { f \in 0..5 : (f \div 2) + 1 \in ActiveAxes }

\* C13: a face the constructor classified "block" has a populated neighbor slot
\* (gid # -1) after SetNeighbors.
C13_BlockFacePopulated ==
  Done =>
    \A b \in LocalBlocks : \A f \in 0..5 :
      mbbcs[b][f] = "block" =>
        /\ FaceSlot(f) \in DOMAIN nghbr_h[b]
        /\ Populated(nghbr_h[b][FaceSlot(f)])

\* the part of C13 that holds: a "block" face always has a written slot, and a
\* "block" x1 face a populated one
C13_BlockFaceWritten ==
  Done =>
    \A b \in LocalBlocks : \A f \in 0..5 :
      mbbcs[b][f] = "block" =>
        /\ FaceSlot(f) \in DOMAIN nghbr_h[b]
        /\ Written(nghbr_h[b][FaceSlot(f)])
        /\ (f < 2 => Populated(nghbr_h[b][FaceSlot(f)]))

\* C14 as stated: on a non-degenerate axis a face whose neighbor slot is
\* populated, periodic wrap-around included, is classified "block"; a face
\* carrying a configured boundary kind has a sentinel slot.
C14_PopulatedFaceIsBlock ==
  Done =>
    \A b \in LocalBlocks : \A f \in ActiveFaces :
      /\ Populated(nghbr_h[b][FaceSlot(f)]) => mbbcs[b][f] = "block"
      /\ mbbcs[b][f] # "block" => nghbr_h[b][FaceSlot(f)] = Sentinel

\* C14 amended: on a non-degenerate axis a face whose neighbor slot is populated
\* is classified "block", or "periodic" when it lies on the edge of a periodic
\* domain; a face carrying any other configured kind has a sentinel slot.
C14_PopulatedFaceIsBlockOrPeriodic ==
  Done =>
    \A b \in LocalBlocks : \A f \in ActiveFaces :
      LET loc == BlockLoc(b)
          a == (f \div 2) + 1
          onEdge == IF f % 2 = 0 THEN Coord(loc, a) = 0
                    ELSE Coord(loc, a) = LastCoord(a, loc.level)
      IN  /\ Populated(nghbr_h[b][FaceSlot(f)]) =>
               \/ mbbcs[b][f] = "block"
               \/ (mbbcs[b][f] = "periodic" /\ onEdge)
          /\ mbbcs[b][f] \notin {"block", "periodic"} =>
               nghbr_h[b][FaceSlot(f)] = Sentinel
          /\ (mbbcs[b][f] = "periodic" /\ f < 2) => Populated(nghbr_h[b][FaceSlot(f)])

\* C14 witness: a block with a populated "block" face, a populated "periodic"
\* face on the domain edge, and a sentinel slot on a "reflect" face.
C14_Witness ==
  /\ Done
  /\ \E b \in LocalBlocks : \E f, g, h \in ActiveFaces :
       /\ mbbcs[b][f] = "block" /\ Populated(nghbr_h[b][FaceSlot(f)])
       /\ mbbcs[b][g] = "periodic" /\ Populated(nghbr_h[b][FaceSlot(g)])
       /\ mbbcs[b][h] = "reflect" /\ nghbr_h[b][FaceSlot(h)] = Sentinel

\* the queries of the last call in program order (block by block), each marked
\* with whether it found no node
NullMarks ==
  LET len == Len(qlog)
  IN  [ k \in 1..(nmb * len) |->
          FoundAt((k - 1) \div len, ((k - 1) % len) + 1) = NullNode ] \o << >>

\* C15: a query that leaves the domain on a non-periodic axis is no error: its
\* slot keeps the sentinel, the queries after it and the blocks after it are
\* still searched, and the call completes with the whole table on the device.
C15_BoundaryNotAnError ==
  Done =>
    LET len == Len(qlog)
        null == NullMarks
        total == Len(null)
        first == CHOOSE k \in 1..(total + 1) :
                   /\ (k = total + 1 \/ null[k])
                   /\ \A m \in 1..(k - 1) : ~null[m]
    IN  /\ nghbr_d = nghbr_h
        /\ \A k \in 1..total :
             LET b == (k - 1) \div len
                 q == qlog[((k - 1) % len) + 1]
             IN  /\ null[k] =>
                       /\ ExitsDomain(BlockLoc(b), q.ox1, q.ox2, q.ox3)
                       /\ nghbr_h[b][q.slot] = Sentinel
                       /\ nghbr_d[b][q.slot] = Sentinel
                 /\ (~null[k] /\ k > first) =>
                       /\ Written(nghbr_h[b][q.slot])
                       /\ Written(nghbr_d[b][q.slot])

\* C15 witness: the first query of the first block leaves the domain, a later
\* query of that block and a query of a later block find nodes.
C15_Witness ==
  /\ Done
  /\ nmb > 1
  /\ FoundAt(0, 1) = NullNode
  /\ nghbr_d[0][qlog[1].slot] = Sentinel
  /\ \E j \in DOMAIN qlog : j > 1 /\ Populated(nghbr_d[0][qlog[j].slot])
  /\ \E j \in DOMAIN qlog : Populated(nghbr_d[nmb - 1][qlog[j].slot])

\* ------------------------------------- properties of publishing and frame
\* positions of a step in the log of the last SetNeighbors call
StepsAt(name) == { i \in DOMAIN nghbr_log : nghbr_log[i] = name }
\* the steps that write the host view
HostWrites == { "realloc", "init", "search" }

\* C16: in a SetNeighbors call every host write of the table (sentinel
\* initialisation, search) precedes the host-modified mark, the mark precedes
\* the sync, there is exactly one sync and no host write after the mark; on
\* return the device view equals the complete host table.
C16_PublishOrdering ==
  Done =>
    /\ Cardinality(StepsAt("modify_host")) = 1
    /\ Cardinality(StepsAt("sync_device")) = 1
    /\ StepsAt("init") # {}
    /\ StepsAt("search") # {}
    /\ \A i \in DOMAIN nghbr_log : \A m \in StepsAt("modify_host") :
         nghbr_log[i] \in HostWrites => i < m
    /\ \A m \in StepsAt("modify_host") : \A y \in StepsAt("sync_device") : m < y
    /\ nghbr_d = nghbr_h
    /\ \A b \in LocalBlocks : \A i \in DOMAIN qlog :
         Written(nghbr_d[b][qlog[i].slot]) <=> FoundAt(b, i) # NullNode

\* C16 witness: after a call the device view holds populated entries of a block
\* next to sentinels, with five steps logged.
C16_Witness ==
  /\ Done
  /\ Len(nghbr_log) = 5
  /\ \E b \in LocalBlocks : \E s, t \in DOMAIN nghbr_d[b] :
       /\ Populated(nghbr_d[b][s])
       /\ nghbr_d[b][t] = Sentinel

\* C17: after the constructor the gid, the level and the six boundary flags of
\* every local block are on the compute-side mirror.
C17_CtorPublishesAll ==
  Constructed =>
    /\ mbgid_d = mbgid_h
    /\ mblev_d = mblev_h
    /\ mbbcs_d = mbbcs

\* the part of C17 the constructor does establish: gids and levels are published
C17_GidLevelPublished ==
  Constructed =>
    /\ nmb > 0
    /\ mbgid_d = mbgid_h
    /\ mblev_d = mblev_h
    /\ DOMAIN mbgid_d = LocalBlocks

\* C18: when the rank map has no entry for the gid of a neighbor the search
\* found, the call aborts and the table is not synchronized to the device.
C18_MissingRankAborts ==
  (\E b \in DOMAIN nghbr_h : \E s \in DOMAIN nghbr_h[b] :
      /\ Written(nghbr_h[b][s])
      /\ nghbr_h[b][s].gid \notin DOMAIN ranklist)
    => (pc # "neighbors" /\ nghbr_d # nghbr_h)

\* C19: the table is rebuilt from scratch: after any sequence of calls it is the
\* table one call on a fresh MeshBlock builds from the current tree, location
\* list and rank map, and a repeated call with the same inputs changes nothing.
C19_RebuiltFromScratch ==
  /\ [](Done =>
         /\ nghbr_h = SearchedTable(NewNnghbr)
         /\ nghbr_d = SearchedTable(NewNnghbr))
  /\ [][(pc = "neighbors" /\ pc' = "neighbors") =>
          (nghbr_h' = nghbr_h /\ nghbr_d' = nghbr_d /\ nnghbr' = nnghbr)]_vars

\* C19 witness: a second call after the rank map went from one rank to two; the
\* new table carries rank 1, which no entry of the first call had.
C19_Witness ==
  /\ Done
  /\ nbalance = 1
  /\ \E b \in LocalBlocks : \E s \in DOMAIN nghbr_h[b] :
       /\ nghbr_h[b][s].rank = 1
       /\ nghbr_h[b][s].gid \in DOMAIN ranklist
       /\ ranklist[nghbr_h[b][s].gid] = 1

\* C20: a SetNeighbors call changes only the neighbor table and the neighbor
\* count: the tree, the rank map, the location list and the block's gid, level
\* and boundary-flag arrays are the same before and after.
C20_SetNeighborsFrame ==
  [][pc' = "neighbors" =>
       /\ refined' = refined
       /\ tree_gid' = tree_gid
       /\ ranklist' = ranklist
       /\ lloclist' = lloclist
       /\ <<dim, nmb_root, root_level, mesh_bcs>>' = <<dim, nmb_root, root_level, mesh_bcs>>
       /\ <<nmb, mbgid_h, mbgid_d>>' = <<nmb, mbgid_h, mbgid_d>>
       /\ <<mblev_h, mblev_d>>' = <<mblev_h, mblev_d>>
       /\ <<mbbcs, mbbcs_d>>' = <<mbbcs, mbbcs_d>>]_vars

\* C20 witness: a 3D table of several blocks has been built while the block
\* arrays still hold what the constructor stored.
C20_Witness ==
  /\ Done
  /\ nnghbr = 26
  /\ nmb > 1
  /\ \E b \in LocalBlocks : \E s \in DOMAIN nghbr_h[b] : Populated(nghbr_h[b][s])
  /\ mblev_d = mblev_h
  /\ \A b \in LocalBlocks : mblev_h[b] = BlockLoc(b).level

\* ------------------------------------------------ scenarios and edge cases
\* the 1D scenario: root level 0, four root blocks, not periodic, no refinement
FourBlocks1D ==
  /\ dim = 1
  /\ root_level = 0
  /\ nmb_root = <<4, 1, 1>>
  /\ refined = {}
  /\ mesh_bcs[inner_x1] # "periodic"

\* C21: in the 1D scenario block 0 has the mesh's physical kind on its low x1
\* face and the sentinel at slot 0, and its slot 1 names block 1 with destn 0;
\* block 3 has the physical kind on its high x1 face and the sentinel at slot
\* 1; blocks 1 and 2 have both x1 faces "block" and both slots populated (by
\* the blocks before and after them).
C21_FourBlockScenario ==
  (FourBlocks1D /\ Done) =>
    \A b \in LocalBlocks :
      LET g == mbgid_h[b]
          row == nghbr_d[b]
      IN  /\ nnghbr = 2
          /\ BlockLoc(b) = Loc(0, g, 0, 0)
          /\ nghbr_h[b] = row
          /\ (g = 0 =>
                /\ mbbcs[b][inner_x1] = mesh_bcs[inner_x1]
                /\ mbbcs[b][inner_x1] # "block"
                /\ row[0] = Sentinel
                /\ mbbcs[b][outer_x1] = "block"
                /\ row[1] = [gid |-> 1, lev |-> 0, rank |-> ranklist[1], destn |-> 0])
          /\ (g = 3 =>
                /\ mbbcs[b][outer_x1] = mesh_bcs[outer_x1]
                /\ mbbcs[b][outer_x1] # "block"
                /\ row[1] = Sentinel
                /\ mbbcs[b][inner_x1] = "block"
                /\ row[0] = [gid |-> 2, lev |-> 0, rank |-> ranklist[2], destn |-> 1])
          /\ (g \in {1, 2} =>
                /\ mbbcs[b][inner_x1] = "block"
                /\ mbbcs[b][outer_x1] = "block"
                /\ row[0] = [gid |-> g - 1, lev |-> 0, rank |-> ranklist[g - 1], destn |-> 1]
                /\ row[1] = [gid |-> g + 1, lev |-> 0, rank |-> ranklist[g + 1], destn |-> 0])

\* C21 witness: the scenario on one rank, all four blocks local, table built
C21_Witness ==
  /\ FourBlocks1D
  /\ Done
  /\ nmb = 4
  /\ mbgid_h = [ m \in 0..3 |-> m ]
  /\ nghbr_d[0][0] = Sentinel
  /\ nghbr_d[0][1].gid = 1
  /\ nghbr_d[3][1] = Sentinel
  /\ Populated(nghbr_d[1][0]) /\ Populated(nghbr_d[2][1])

\* the slots of the directions along the mesh's non-degenerate axes
ActiveSlots == 0..((IF dim = 1 THEN 2 ELSE IF dim = 2 THEN 8 ELSE 26) - 1)

\* C22: SetNeighbors makes no FindNeighbor call with a non-zero offset on a
\* degenerate axis: on a 1D mesh the calls are (-1,0,0) and (+1,0,0) only, on a
\* 2D mesh none has ox3 # 0; and no slot of a direction along a degenerate axis
\* is written: the table holds only the slots of the active directions.
C22_NoDegenerateQueries ==
  Done =>
    /\ \A i \in DOMAIN qlog :
         /\ (dim < 2 => qlog[i].ox2 = 0)
         /\ (dim < 3 => qlog[i].ox3 = 0)
         /\ qlog[i].slot \in ActiveSlots
    /\ (dim = 1 =>
          { <<qlog[i].ox1, qlog[i].ox2, qlog[i].ox3>> : i \in DOMAIN qlog }
            = { <<-1, 0, 0>>, <<1, 0, 0>> })
    /\ \A b \in LocalBlocks :
         /\ DOMAIN nghbr_h[b] = ActiveSlots
         /\ DOMAIN nghbr_d[b] = ActiveSlots
         /\ \A s \in DOMAIN nghbr_h[b] :
              Written(nghbr_h[b][s]) =>
                \E i \in DOMAIN qlog : qlog[i].slot = s /\ FoundAt(b, i) # NullNode

\* C22 witness: a refined 1D mesh (the x2 and x3 counts at the finer level are 2,
\* so there would be something to find) and a 2D mesh, each with a built table.
C22_Witness ==
  /\ Done
  /\ dim = 1
  /\ refined # {}
  /\ Len(qlog) = 2
  /\ \E b \in LocalBlocks : mblev_h[b] > root_level /\ Populated(nghbr_h[b][0])

\* the 2D case of C22: eight calls, none with ox3 # 0
C22_Witness2D ==
  /\ Done
  /\ dim = 2
  /\ Len(qlog) = 8
  /\ \E b \in LocalBlocks : Populated(nghbr_h[b][7])

GidsOfRank(r) == { g \in DOMAIN ranklist : ranklist[g] = r }

FinerX1Faces ==
  { bi \in LocalBlocks \X DOMAIN qlog :
      /\ qlog[bi[2]].ox1 # 0 /\ qlog[bi[2]].ox2 = 0 /\ qlog[bi[2]].ox3 = 0
      /\ FoundAt(bi[1], bi[2]) # NullNode
      /\ HasLeaves(FoundAt(bi[1], bi[2])) }

\* C26: when the x1-face neighbor is finer the child recorded is the one on the
\* side of the finer node that faces the block: its x1 index within the node is
\* 1 for the -x1 call and 0 for the +x1 call (x2 and x3 index 0); it is a leaf
\* one level finer than the block, and stepping from it back across the queried
\* face leads to the block.
C26_FacingChild ==
  Done =>
    \A bi \in FinerX1Faces :
      LET b == bi[1]
          q == qlog[bi[2]]
          nt == FoundAt(b, bi[2])
          e == nghbr_h[b][q.slot]
          fface == IF q.ox1 = -1 THEN 1 ELSE 0
      IN  /\ e.gid \in DOMAIN lloclist
          /\ tree_gid[GetLeaf(nt, fface, 0, 0)] = e.gid
          /\ NamedLeaf(e) = Loc(nt.level + 1, 2 * nt.lx1 + fface, 2 * nt.lx2, 2 * nt.lx3)
          /\ e.lev = mblev_h[b] + 1
          /\ e.lev = NamedLeaf(e).level
          /\ FindNeighbor(NamedLeaf(e), -q.ox1, 0, 0) = BlockLoc(b)

\* C26 witness: a 2D or 3D mesh where one block has a finer neighbor across its
\* low x1 face and one across its high x1 face.
C26_Witness ==
  /\ Done
  /\ dim >= 2
  /\ \E bi \in FinerX1Faces : qlog[bi[2]].ox1 = -1
  /\ \E bi \in FinerX1Faces : qlog[bi[2]].ox1 = 1

\* ------------------------------------------------------- entry atomicity
\* an entry with all four fields set from a leaf and the rank map
FullyPopulated(e) ==
  /\ e.gid >= 0
  /\ e.lev >= 0
  /\ e.gid \in DOMAIN ranklist
  /\ e.rank = ranklist[e.gid]
  /\ e.destn \in 0..(nnghbr - 1)

\* C27: after SetNeighbors every slot of every local block is either the full
\* sentinel or fully populated (gid >= 0, lev >= 0, rank from the rank map, destn
\* in 0..nnghbr-1); no slot has some fields set and others at -1.
C27_EntryAtomicity ==
  Done =>
    \A b \in LocalBlocks : \A s \in DOMAIN nghbr_h[b] :
      \/ nghbr_h[b][s] = Sentinel
      \/ FullyPopulated(nghbr_h[b][s])

\* the part of C27 that holds: the x1-face slots are sentinel or fully populated,
\* and every written entry has its level and destn set
C27_X1FacesAtomic ==
  Done =>
    \A b \in LocalBlocks : \A s \in DOMAIN nghbr_h[b] :
      LET e == nghbr_h[b][s]
      IN  /\ (s \in 0..1 => (e = Sentinel \/ FullyPopulated(e)))
          /\ (Written(e) => (e.lev >= 0 /\ e.destn \in 0..(nnghbr - 1)))

\* ------------------------------------------------ constructor postcondition
\* C28: after construction with first gid igids and count nmb, local block m has
\* gid igids + m and the level of the location listed for that gid; the local
\* gids are pairwise distinct; every local level is at least the root level, and
\* the count the high-face test uses is nmb_root shifted left by level minus
\* root level.
C28_CtorPostcondition ==
  Constructed =>
    /\ (nbalance = 0 => (nmb = NmbEachRank(my_rank) /\ mbgid_h[0] = GidsEachRank(my_rank)))
    /\ \A m \in LocalBlocks :
         /\ mbgid_h[m] = mbgid_h[0] + m
         /\ mbgid_h[m] \in DOMAIN lloclist
         /\ mblev_h[m] = lloclist[mbgid_h[0] + m].level
         /\ mblev_h[m] >= root_level
         /\ \A a \in ActiveAxes :
              (mbbcs[m][HighFace(a)] # "block") <=>
                (Coord(BlockLoc(m), a) = Shl(nmb_root[a], mblev_h[m] - root_level) - 1)
    /\ \A m, k \in LocalBlocks : m # k => mbgid_h[m] # mbgid_h[k]

\* C28 witness: rank 1 of two on a tree whose root level is 1; a local block one
\* level below the root level lies on the high x1 edge of the domain, at a
\* coordinate beyond the root grid's.
C28_Witness ==
  /\ Constructed
  /\ root_level = 1
  /\ my_rank = 1
  /\ nmb >= 2
  /\ mbgid_h[0] > 0
  /\ \E m \in LocalBlocks :
       /\ mblev_h[m] = root_level + 1
       /\ BlockLoc(m).lx1 = Shl(nmb_root[1], 1) - 1
       /\ mbbcs[m][outer_x1] = mesh_bcs[outer_x1]
  /\ \E m \in LocalBlocks : mblev_h[m] = root_level

\* ------------------------------------------------------------ Decomposer
\* no MeshBlock and no mesh are in use
MeshBlockOff ==
  /\ dim = 1
  /\ nmb_root = <<1, 1, 1>>
  /\ root_level = 0
  /\ mesh_bcs = MeshBcsOf(<<"reflect", "outflow">>, <<"reflect", "outflow">>,
                          <<"reflect", "outflow">>)
  /\ refined = {}
  /\ lloclist = << >>
  /\ tree_gid = << >>
  /\ ranklist = << >>
  /\ oob_rank = -1
  /\ my_rank = 0
  /\ pc = "off"
  /\ nmb = 0
  /\ mbgid_h = << >>
  /\ mbgid_d = << >>
  /\ mblev_h = << >>
  /\ mblev_d = << >>
  /\ mbbcs = << >>
  /\ mbbcs_d = << >>
  /\ nnghbr = 0
  /\ nghbr_h = << >>
  /\ nghbr_d = << >>
  /\ qlog = << >>
  /\ nghbr_log = << >>
  /\ nbalance = 0

\* the sum of the costs of gids 0..(k - 1)
RECURSIVE CostBelow(_, _)
CostBelow(c, k) == IF k = 0 THEN 0 ELSE c[k - 1] + CostBelow(c, k - 1)

\* variant: a cut is made only when the running sum would exceed the target
\* (for C25)
MustCut_Never(g, r, n, W) == FALSE

\* as many blocks are left as workers without one: cut now, so that every
\* worker keeps at least one block
MustCut(g, r, n, W) == n - g <= W - 1 - r

\* the running sum with block g would exceed the target of worker r, which is
\* (r + 1) * total / W
WouldExceed(g, r, acc, c, W, total) == W * (acc + c[g]) > (r + 1) * total

\* the single forward scan: block g goes to the current worker r, or to worker
\* r + 1 when a new range is cut before it; out lists the workers of gids 0..g-1
RECURSIVE Scan(_, _, _, _, _, _, _)
Scan(g, r, acc, cnt, out, c, W) ==
  LET n == Cardinality(DOMAIN c)
  IN  IF g = n THEN out
      ELSE LET cut == /\ r < W - 1
                      /\ cnt > 0
                      /\ \/ WouldExceed(g, r, acc, c, W, CostBelow(c, n))
                         \/ MustCut(g, r, n, W)
               w == IF cut THEN r + 1 ELSE r
           IN  Scan(g + 1, w, acc + c[g], (IF cut THEN 1 ELSE cnt + 1),
                    Append(out, w), c, W)

\* rankOf for the sequence of costs c and W workers
DecomposeOf(c, W) ==
  LET out == Scan(0, 0, 0, 0, << >>, c, W) \o << >>
  IN  [ g \in DOMAIN c |-> out[g + 1] ]

\* the cost vectors of positive weights within the bounds
CostVectors ==
  UNION { [ 0..(n - 1) -> 1..MaxCost ] : n \in 1..MaxBlocksD }

DecompInit ==
  /\ MeshBlockOff
  /\ BicgOff
  /\ AdvOff
  /\ costs \in CostVectors
  /\ nworkers \in 1..MaxWorkers
  /\ rankOf = << >>
  /\ dpc = "input"
  /\ nruns = 0

\* the decomposition is computed (again) from the same (gids, costs) sequence
Decompose ==
  /\ dpc \in { "input", "decomposed" }
  /\ nruns < MaxRuns
  /\ rankOf' = DecomposeOf(costs, nworkers)
  /\ dpc' = "decomposed"
  /\ nruns' = nruns + 1
  /\ UNCHANGED <<costs, nworkers, meshblockvars, bicgvars, advvars>>

DecompNext == Decompose

DecompSpec == DecompInit /\ [][DecompNext]_vars

\* the number of blocks handed to the decomposer
NBlocksD == Cardinality(DOMAIN costs)

tot_iter == num_points

\* an iterate, named by the assignment that produced it and the iteration:
\* "init" (f0 + 1e-14), "h" (h_arr copied on s.s < tol), "x" (h + omega*s)
Iterate(kind, it) == [kind |-> kind, it |-> it]

\* what the two residual tests of an iteration can give: s.s < tol, else
\* r.r < tol, else neither (also when a division gave inf or NaN)
TestOutcomes == { "s_small", "r_small", "neither" }

BicgInit ==
  /\ MeshBlockOff
  /\ DecompOff
  /\ AdvOff
  /\ num_points \in 1..MaxPoints
  /\ ncells \in 1..MaxCells
  /\ bcell = 0
  /\ bpc = "setup"
  /\ index = 0
  /\ n_iter = 0
  /\ x0_arr = Iterate("init", 0)
  /\ f0 = [ c \in 0..(ncells - 1) |-> Iterate("old", 0) ]
  /\ warnings = [ c \in 0..(ncells - 1) |-> 0 ]
  /\ converged = [ c \in 0..(ncells - 1) |-> FALSE ]
  /\ iters = [ c \in 0..(ncells - 1) |-> 0 ]

\* x0_arr, rhat0, r0, p0, rho0 are set up and the loop is entered
BicgSetup ==
  /\ bpc = "setup"
  /\ x0_arr' = Iterate("init", 0)
  /\ n_iter' = 0
  /\ index' = 0
  /\ bpc' = IF 0 < tot_iter THEN "loop" ELSE "write"
  /\ UNCHANGED <<num_points, ncells, bcell, f0, warnings, converged, iters>>
  /\ UNCHANGED <<meshblockvars, decompvars, advvars>>

\* if (n_iter >= tot_iter) printf("Warning! ..."), at the head of the iteration
WarnNow(n) == n >= tot_iter

\* one iteration of the BiCGSTAB loop
BicgIterate ==
  /\ bpc = "loop"
  /\ index < tot_iter
  /\ \E out \in TestOutcomes :
       LET n == n_iter + 1
           stop == out # "neither"
       IN  /\ n_iter' = n
           /\ iters' = [iters EXCEPT ![bcell] = @ + 1]
           /\ warnings' = [warnings EXCEPT ![bcell] = IF WarnNow(n) THEN @ + 1 ELSE @]
           /\ x0_arr' = IF out = "s_small" THEN Iterate("h", n) ELSE Iterate("x", n)
           /\ converged' = [converged EXCEPT ![bcell] = @ \/ stop]
           /\ index' = IF stop THEN index ELSE index + 1
           /\ bpc' = IF stop \/ ~(index + 1 < tot_iter) THEN "write" ELSE "loop"
  /\ UNCHANGED <<num_points, ncells, bcell, f0>>
  /\ UNCHANGED <<meshblockvars, decompvars, advvars>>

\* f0_(m, unifiedidx, k, j, i) = x0_arr(idx), then the next cell
BicgWriteBack ==
  /\ bpc = "write"
  /\ f0' = [f0 EXCEPT ![bcell] = x0_arr]
  /\ IF bcell + 1 < ncells
     THEN bcell' = bcell + 1 /\ bpc' = "setup"
     ELSE bcell' = bcell /\ bpc' = "done"
  /\ UNCHANGED <<num_points, ncells, index, n_iter, x0_arr, warnings, converged, iters>>
  /\ UNCHANGED <<meshblockvars, decompvars, advvars>>

BicgNext == BicgSetup \/ BicgIterate \/ BicgWriteBack

BicgSpec == BicgInit /\ [][BicgNext]_vars

\* the cells whose solve is finished and written back
SolvedCells == { c \in DOMAIN f0 : c < bcell \/ bpc = "done" }

\* C29: the solve of a cell makes at most num_points iterations and then writes
\* the current iterate back to f0; the warning is printed only when all
\* num_points iterations were used and neither residual test succeeded.
C29_WarningOnlyUnconverged ==
  \A c \in SolvedCells :
    /\ iters[c] <= num_points
    /\ f0[c].kind \in { "h", "x" }
    /\ f0[c].it = iters[c]
    /\ (warnings[c] > 0 => (iters[c] = num_points /\ ~converged[c]))

\* the part of C29 that holds: at most num_points iterations, the iterate of the
\* last iteration is written back, and one warning is printed exactly when the
\* last permitted iteration was begun, converged or not
C29_BoundedAndWritten ==
  \A c \in SolvedCells :
    /\ iters[c] \in 1..num_points
    /\ f0[c].kind \in { "h", "x" }
    /\ f0[c].it = iters[c]
    /\ (f0[c].kind = "h" => converged[c])
    /\ (~converged[c] => iters[c] = num_points)
    /\ warnings[c] = (IF iters[c] = num_points THEN 1 ELSE 0)

\* ------------------------------------------ ProblemGenerator::Advection_
\* the conserved variables IDN, IM1, IM2, IM3, IEN
ConsVars == { "IDN", "IM1", "IM2", "IM3", "IEN" }

\* mb_cells of a block with nx1 x nx2 x nx3 active cells and ng ghost cells (an
\* axis with one cell has no ghost cells)
CellIndcs(nx1, nx2, nx3, ng) ==
  [nx1 |-> nx1, nx2 |-> nx2, nx3 |-> nx3, ng |-> ng,
   is |-> ng, ie |-> ng + nx1 - 1,
   js |-> (IF nx2 > 1 THEN ng ELSE 0), je |-> (IF nx2 > 1 THEN ng ELSE 0) + nx2 - 1,
   ks |-> (IF nx3 > 1 THEN ng ELSE 0), ke |-> (IF nx3 > 1 THEN ng ELSE 0) + nx3 - 1]

\* all cells <<k, j, i>> of the block's arrays, ghost cells included
ArrayCells(mc) ==
  (0..(mc.ke + mc.ks)) \X (0..(mc.je + mc.js)) \X (0..(mc.ie + mc.ng))

\* the cells the loops visit: k in ks..ke, j in js..je, i in is-ng..ie+ng
LoopCells(mc) ==
  (mc.ks..mc.ke) \X (mc.js..mc.je) \X ((mc.is - mc.ng)..(mc.ie + mc.ng))

\* the cell after <<k, j, i>> in loop order, or << >> after the last one
NextCell(mc, c) ==
  IF c[3] < mc.ie + mc.ng THEN <<c[1], c[2], c[3] + 1>>
  ELSE IF c[2] < mc.je THEN <<c[1], c[2] + 1, mc.is - mc.ng>>
  ELSE IF c[1] < mc.ke THEN <<c[1] + 1, mc.js, mc.is - mc.ng>>
  ELSE << >>

AdvInit ==
  /\ MeshBlockOff
  /\ DecompOff
  /\ BicgOff
  /\ flow_dir \in 0..4
  /\ iprob \in 0..3
  /\ \E nx1, nx2, nx3 \in 1..MaxNx : \E ng \in 1..MaxNg :
       mb_cells = CellIndcs(nx1, nx2, nx3, ng)
  /\ u0 = [ e \in ConsVars \X ArrayCells(mb_cells) |-> "unset" ]
  /\ kji = << >>
  /\ apc = "start"

\* the parameters are read and the domain length is chosen by flow_dir; any
\* other flow_dir is fatal
AdvectionStart ==
  /\ apc = "start"
  /\ IF flow_dir \in {1, 2, 3}
     THEN /\ apc' = "loop"
          /\ kji' = <<mb_cells.ks, mb_cells.js, mb_cells.is - mb_cells.ng>>
     ELSE /\ apc' = "exited"
          /\ kji' = kji
  /\ UNCHANGED <<flow_dir, iprob, mb_cells, u0>>
  /\ UNCHANGED <<meshblockvars, decompvars, bicgvars>>

\* r >= 0.25 && r <= 0.5 for the cell with index c of n cells that start at cs,
\* r = (cell centre - xmin)/length on a block that spans the domain
InSecondQuarter(c, cs, n) ==
  /\ 2 * (2 * (c - cs) + 1) >= n
  /\ 2 * (c - cs) + 1 <= n

\* the index along flow_dir, the first active index and the cell count there
AlongFlow(c) ==
  IF flow_dir = 1 THEN <<c[3], mb_cells.is, mb_cells.nx1>>
  ELSE IF flow_dir = 2 THEN <<c[2], mb_cells.js, mb_cells.nx2>>
  ELSE <<c[1], mb_cells.ks, mb_cells.nx3>>

\* variant: every iproblem but 1 is taken as the square wave (for C30)
ProblemOf_SquareByDefault(ip) == IF ip = 1 THEN "sine" ELSE "square"

\* the branch the cell loop takes on iprob
ProblemOf(ip) == IF ip = 1 THEN "sine" ELSE IF ip = 2 THEN "square" ELSE "fatal"

\* u0(IDN,k,j,i) of cell c
DensityAt(c) ==
  IF ProblemOf(iprob) = "sine" THEN "1+amp*sin(2*pi*r)"
  ELSE IF InSecondQuarter(AlongFlow(c)[1], AlongFlow(c)[2], AlongFlow(c)[3])
       THEN "1+amp" ELSE "1"

\* the momentum component n of cell c: vel * density along flow_dir, else 0
MomentumAt(n, c) ==
  IF n = <<"IM1", "IM2", "IM3">>[IF flow_dir \in {1, 2} THEN flow_dir ELSE 3]
  THEN (IF DensityAt(c) = "1" THEN "vel*1"
        ELSE IF DensityAt(c) = "1+amp" THEN "vel*(1+amp)"
        ELSE "vel*(1+amp*sin(2*pi*r))")
  ELSE "0"

\* one pass of the loop body, for cell kji
AdvectionCell ==
  /\ apc = "loop"
  /\ IF ProblemOf(iprob) = "fatal"
     THEN /\ apc' = "exited"
          /\ UNCHANGED <<u0, kji>>
     ELSE /\ u0' = [ e \in DOMAIN u0 |->
                       IF e[2] # kji THEN u0[e]
                       ELSE IF e[1] = "IDN" THEN DensityAt(kji)
                       ELSE IF e[1] = "IEN" THEN "1"
                       ELSE MomentumAt(e[1], kji) ]
          /\ kji' = NextCell(mb_cells, kji)
          /\ apc' = IF NextCell(mb_cells, kji) = << >> THEN "returned" ELSE "loop"
  /\ UNCHANGED <<flow_dir, iprob, mb_cells>>
  /\ UNCHANGED <<meshblockvars, decompvars, bicgvars>>

AdvNext == AdvectionStart \/ AdvectionCell

\* the function runs to its end: nothing suspends it
AdvSpec == AdvInit /\ [][AdvNext]_vars /\ WF_vars(AdvNext)

\* flow_dir is not 1, 2 or 3, or iproblem is not 1 or 2
BadParameters == flow_dir \notin {1, 2, 3} \/ iprob \notin {1, 2}

\* no conserved variable of the block has been written
NothingWritten == \A e \in DOMAIN u0 : u0[e] = "unset"

\* C30: with flow_dir not in 1..3 or iproblem not in 1..2 the function ends the
\* process with a failure status and no conserved variable of the block has
\* been written; with valid parameters it writes density, the three momenta and
\* the energy of every cell of the loop range and returns normally.
C30_FailOrWriteAll ==
  /\ [](BadParameters => (apc # "returned" /\ NothingWritten))
  /\ [](apc = "exited" => (BadParameters /\ NothingWritten))
  /\ [](apc = "returned" =>
          /\ ~BadParameters
          /\ \A e \in DOMAIN u0 :
               (u0[e] # "unset") <=> (e[2] \in LoopCells(mb_cells)))
  /\ BadParameters ~> (apc = "exited")
  /\ (~BadParameters) ~> (apc = "returned")

\* C30 witness: a square wave along x2 on a block with two cells along every
\* axis has returned; one cell got the raised density, another the plain one,
\* and the ghost cells in x2 are untouched.
C30_Witness ==
  /\ apc = "returned"
  /\ iprob = 2
  /\ flow_dir = 2
  /\ mb_cells.nx1 = 2 /\ mb_cells.nx2 = 2 /\ mb_cells.nx3 = 2
  /\ \E e \in DOMAIN u0 : e[1] = "IDN" /\ u0[e] = "1+amp"
  /\ \E e \in DOMAIN u0 : e[1] = "IDN" /\ u0[e] = "1"
  /\ \E e \in DOMAIN u0 : e[1] = "IM2" /\ u0[e] = "vel*(1+amp)"
  /\ \E e \in DOMAIN u0 : u0[e] = "unset"

\* the failing side of C30: a valid flow_dir with iproblem 3 has ended the
\* process in the first cell
C30_WitnessExit ==
  /\ apc = "exited"
  /\ flow_dir = 1
  /\ iprob = 3
  /\ kji = <<mb_cells.ks, mb_cells.js, mb_cells.is - mb_cells.ng>>
  /\ NothingWritten

====
